---- MODULE Spec2Model ----
(***************************************************************************)
(* Model of the sorting strategies (sorting_algorithms.py) and the timing  *)
(* harness (timing_analysis.py).                                           *)
(*                                                                         *)
(* Python lists are objects: `mem` is the store of Player lists, a         *)
(* variable that names a list holds its reference (an index of `mem`).     *)
(* Python indices are 0-based; At/Put translate them to TLA+ sequences.    *)
(* Stat values are floats >= 0 (player.py:16-23); they are modelled in     *)
(* tenths as integers, which keeps <, <=, >, >= and unary minus exact.     *)
(***************************************************************************)
EXTENDS Integers, Sequences, FiniteSets, TLC

VARIABLES
    pc,              \* position of the running call
    mem,             \* store of Player lists: reference -> contents
    players,         \* reference of the caller's list (the argument)
    given,           \* history: contents of the argument when the call began
    func,            \* the Sort Strategy that was called
    stat,            \* argument stat
    descending,      \* argument descending
    sorted_players,  \* local of insertion_sort / heapsort: a reference, 0 = unbound
    i,               \* insertion_sort: outer loop index
    j,               \* insertion_sort: inner loop index
    items,           \* heapsort / heapify: the list of <<key, Player>> tuples
    next_item,       \* heapify: position of the for loop in items
    heap,            \* the heap: a list of <<key, Player>> tuples
    idx,             \* percolate_up / percolate_down: current index
    size,            \* heapsort / percolate_down: live size
    root_player,     \* heapsort: the root removed in this iteration
    ret,             \* returned list reference, 0 = nothing returned
    exc,             \* raised exception, NoExc = none
    datasets,        \* collect_timings: list of <<dataset_name, size, players>>
    algorithms,      \* collect_timings: dict as its list of <<alg_name, func>> items
    repeats,         \* argument repeats
    results,         \* collect_timings: the rows so far
    d_pos,           \* collect_timings: position of the loop over datasets
    a_pos,           \* collect_timings: position of the loop over algorithms.items()
    timings,         \* time_algorithm: the samples so far
    rep,             \* time_algorithm: passes of the for loop completed
    arg,             \* the list reference handed to func in this trial
    trials,          \* history: what each trial of this time_algorithm call received
    calls,           \* history: the <<d_pos, a_pos>> of each time_algorithm call
    time_ret,        \* what the last time_algorithm call returned, None before
    rows_ret,        \* what collect_timings returned, None before
    touched,         \* history: the heap indices the last percolate pass read or wrote
    sizes,           \* plot_results: the sorted sizes
    algs,            \* plot_results: the sorted algorithm labels
    alg_pos,         \* plot_results: position of the loop over algs
    plotted,         \* the calls of plt.plot so far: label, xs, ys
    saved            \* the path plt.savefig wrote, None before

sortVars == <<pc, mem, players, given, func, stat, descending, sorted_players,
              i, j, items, next_item, heap, idx, size, root_player, ret, exc>>

timeVars == <<datasets, algorithms, repeats, results, d_pos, a_pos, timings, rep,
              arg, trials, calls, time_ret, rows_ret>>

plotVars == <<sizes, algs, alg_pos, plotted, saved>>

\* The variables only the Sort Strategies use.
sortLocals == <<players, sorted_players, i, j, items, next_item, heap, idx, size,
                root_player, ret>>

----------------------------------------------------------------------------
(* Bounds of the model *)

MaxLen == 5

----------------------------------------------------------------------------
(* Records *)

\* The Players the datasets are made of: those of the unit tests' fixture,
\* values in tenths. steals_per_game keeps its default 0.0, so spg ties all
\* three; Charlie's blocks_per_game (2.0 in the fixture) is set to Alice's
\* 1.0, so that bpg ties two Records and not the third.
Roster == {"Alice", "Bob", "Charlie"}

PlayerAttrs ==
    [p \in Roster |->
        CASE p = "Alice"   -> [points_per_game |-> 250, assists_per_game |-> 50,
                               blocks_per_game |-> 10,  steals_per_game |-> 0]
          [] p = "Bob"     -> [points_per_game |-> 200, assists_per_game |-> 80,
                               blocks_per_game |-> 5,   steals_per_game |-> 0]
          [] p = "Charlie" -> [points_per_game |-> 300, assists_per_game |-> 30,
                               blocks_per_game |-> 10,  steals_per_game |-> 0]]

getattr(player, attr_name) == PlayerAttrs[player][attr_name]

STAT_MAPPING ==
    [ppg |-> "points_per_game",
     apg |-> "assists_per_game",
     bpg |-> "blocks_per_game",
     spg |-> "steals_per_game"]

ValidKeys == <<"ppg", "apg", "bpg", "spg">>

\* The keys a caller may pass: the four of STAT_MAPPING and one that is not.
StatInputs == DOMAIN STAT_MAPPING \cup {"championships"}

NoExc == [type |-> "none"]

\* Mutation: the error does not say which keys are valid.
InvalidStatWithoutKeys(s) == [type |-> "ValueError", stat |-> s, choose_from |-> << >>]

\* raise ValueError(f"Invalid stat '{stat}'. Choose from: {', '.join(...)}")
InvalidStat(s) == [type |-> "ValueError", stat |-> s, choose_from |-> ValidKeys]

----------------------------------------------------------------------------
(* Lists *)

At(s, k) == s[k + 1]

Put(s, k, v) == [s EXCEPT ![k + 1] = v]

Swap(s, a, b) == [s EXCEPT ![a + 1] = s[b + 1], ![b + 1] = s[a + 1]]

Pop(s) == SubSeq(s, 1, Len(s) - 1)

RECURSIVE SeqsUpTo(_, _)
SeqsUpTo(S, n) ==
    IF n = 0 THEN {<< >>}
    ELSE LET shorter == SeqsUpTo(S, n - 1)
         IN  shorter \cup {Append(s, x) : s \in {t \in shorter : Len(t) = n - 1}, x \in S}

Datasets == SeqsUpTo(Roster, MaxLen)

----------------------------------------------------------------------------
(* numpy_sort *)

RECURSIVE Perms(_)
Perms(S) ==
    IF S = {} THEN {<< >>}
    ELSE UNION {{<<x>> \o p : p \in Perms(S \ {x})} : x \in S}

Least(a, I) == CHOOSE k \in I : \A l \in I : At(a, k) <= At(a, l)

\* np.argsort(a) with the default kind="quicksort": some permutation of the
\* indices 0..len(a)-1 that puts a in ascending order. The sort is not a
\* stable one, so the order of the indices of equal values is any.
RECURSIVE ArgsortOver(_, _)
ArgsortOver(a, I) ==
    IF I = {} THEN {<< >>}
    ELSE LET G == {k \in I : At(a, k) = At(a, Least(a, I))}
         IN  {g \o r : g \in Perms(G), r \in ArgsortOver(a, I \ G)}

argsort(a) == ArgsortOver(a, 0 .. Len(a) - 1)

\* -stat_values
Negated(a) == [k \in 1 .. Len(a) |-> 0 - a[k]]

\* np.array([getattr(player, attr_name) for player in players])
StatValues(list, attr_name) == [k \in 1 .. Len(list) |-> getattr(list[k], attr_name)]

\* lines 43-46: the index permutations numpy may hand back
SortedIndices(stat_values, d) ==
    IF d THEN argsort(Negated(stat_values)) ELSE argsort(stat_values)

\* [players[i] for i in sorted_indices]
Gather(list, sorted_indices) ==
    [k \in 1 .. Len(sorted_indices) |-> At(list, sorted_indices[k])]

StatIsValid(s) == s \in DOMAIN STAT_MAPPING

\* A new list object holding `contents`: the store after, and its reference.
NewList(m, contents) == [mem |-> Append(m, contents), ref |-> Len(m) + 1]

\* Mutation: the working list is the caller's list, not a copy of it.
ListAlias(m, ref) == [mem |-> m, ref |-> ref]

\* list.copy()
ListCopy(m, ref) == NewList(m, m[ref])

Raise(e) ==
    /\ exc' = e
    /\ pc' = "raised"
    /\ UNCHANGED <<mem, sorted_players, i, j, items, next_item, heap, idx, size,
                   root_player, ret>>

Enter(f, s, d) ==
    /\ pc = "idle"
    /\ func' = f
    /\ stat' = s
    /\ descending' = d
    /\ UNCHANGED <<players, given>>

numpy_sort(s, d) ==
    /\ UNCHANGED <<timeVars, plotVars, touched>>
    /\ Enter("numpy_sort", s, d)
    /\ IF ~StatIsValid(s)
       THEN Raise(InvalidStat(s))
       ELSE LET stat_values == StatValues(mem[players], STAT_MAPPING[s])
            IN  \E sorted_indices \in SortedIndices(stat_values, d) :
                  LET new == NewList(mem, Gather(mem[players], sorted_indices))
                  IN  /\ mem' = new.mem
                      /\ ret' = new.ref
                      /\ pc' = "done"
                      /\ UNCHANGED <<sorted_players, i, j, items, next_item, heap,
                                     idx, size, root_player, exc>>

----------------------------------------------------------------------------
(* insertion_sort *)

\* Mutation: strict comparisons, so equal values are swapped too.
in_order_strict(current_value, prev_value, d) ==
    IF d THEN current_value < prev_value ELSE current_value > prev_value

\* line 81
in_order(current_value, prev_value, d) ==
    IF d THEN current_value <= prev_value ELSE current_value >= prev_value

\* lines 67-75: validation, the working copy, the for loop begins at 1
insertion_sort(s, d) ==
    /\ UNCHANGED <<timeVars, plotVars, touched>>
    /\ Enter("insertion_sort", s, d)
    /\ IF ~StatIsValid(s)
       THEN Raise(InvalidStat(s))
       ELSE LET copy == ListCopy(mem, players)
            IN  /\ mem' = copy.mem
                /\ sorted_players' = copy.ref
                /\ i' = 1
                /\ pc' = "insertion_for"
                /\ UNCHANGED <<j, items, next_item, heap, idx, size, root_player,
                               ret, exc>>

\* lines 75-76 and 88: the next i, or the return when range(1, len) is used up
insertion_for ==
    /\ UNCHANGED <<timeVars, plotVars, touched>>
    /\ pc = "insertion_for"
    /\ IF i < Len(mem[sorted_players])
       THEN /\ j' = i
            /\ pc' = "insertion_while"
            /\ UNCHANGED ret
       ELSE /\ ret' = sorted_players
            /\ pc' = "done"
            /\ UNCHANGED j
    /\ UNCHANGED <<mem, players, given, func, stat, descending, sorted_players, i,
                   items, next_item, heap, idx, size, root_player, exc>>

\* lines 77-86: one pass of the while loop
insertion_while ==
    /\ UNCHANGED <<timeVars, plotVars, touched>>
    /\ pc = "insertion_while"
    /\ LET list == mem[sorted_players]
           attr_name == STAT_MAPPING[stat]
       IN  IF j > 0 /\ ~in_order(getattr(At(list, j), attr_name),
                                 getattr(At(list, j - 1), attr_name), descending)
           THEN /\ mem' = [mem EXCEPT ![sorted_players] = Swap(list, j, j - 1)]
                /\ j' = j - 1
                /\ UNCHANGED <<i, pc>>
           ELSE /\ i' = i + 1
                /\ pc' = "insertion_for"
                /\ UNCHANGED <<mem, j>>
    /\ UNCHANGED <<players, given, func, stat, descending, sorted_players,
                   items, next_item, heap, idx, size, root_player, ret, exc>>

----------------------------------------------------------------------------
(* Heap engine and heapsort *)

\* Mutation: the two directions are exchanged.
compare_exchanged(d, a, b) == IF d THEN a < b ELSE a > b

\* lines 145-150: a > b for descending, a < b for ascending
compare(d, a, b) == IF d THEN a > b ELSE a < b

\* line 98: (idx - 1) // 2
parent_of(k) == (k - 1) \div 2

key(entry) == entry[1]

\* Mutation: the right child is compared with heap[idx], not with heap[best].
best_of_right_against_idx(h, k, sz, d) ==
    LET left == 2 * k + 1
        right == left + 1
    IN  IF right < sz /\ compare(d, key(At(h, right)), key(At(h, k)))
        THEN right
        ELSE IF left < sz /\ compare(d, key(At(h, left)), key(At(h, k)))
             THEN left ELSE k

\* Mutation: the right child is never looked at.
best_of_left_only(h, k, sz, d) ==
    IF 2 * k + 1 < sz /\ compare(d, key(At(h, 2 * k + 1)), key(At(h, k)))
    THEN 2 * k + 1 ELSE k

\* lines 109-116: the index percolate_down moves to, idx itself when it stops
best_of(h, k, sz, d) ==
    LET left == 2 * k + 1
        right == left + 1
        best1 == IF left < sz /\ compare(d, key(At(h, left)), key(At(h, k)))
                 THEN left ELSE k
    IN  IF right < sz /\ compare(d, key(At(h, right)), key(At(h, best1)))
        THEN right ELSE best1

\* lines 113-121: the indices one pass of percolate_down reads or writes: a
\* child that is within size, and with it the current best (idx at first).
touched_by_best_of(k, sz) ==
    (IF 2 * k + 1 < sz THEN {2 * k + 1, k} ELSE {}) \cup
    (IF 2 * k + 2 < sz THEN {2 * k + 2} ELSE {})

\* Mutation: the last entry is popped without being moved to the root.
PopWithoutMove(h, sz) == Pop(h)

\* lines 160-161: heap[0] = heap[size - 1]; heap.pop()
MoveLastToRoot(h, sz) == Pop(Put(h, 0, At(h, sz - 1)))

\* line 152: [(getattr(p, attr_name), p) for p in players]
ItemsOf(list, attr_name) == [k \in 1 .. Len(list) |-> <<getattr(list[k], attr_name), list[k]>>]

\* lines 138-153 and 126: validation, the items, heapify begins with heap = []
heapsort(s, d) ==
    /\ UNCHANGED <<timeVars, plotVars, touched>>
    /\ Enter("heapsort", s, d)
    /\ IF ~StatIsValid(s)
       THEN Raise(InvalidStat(s))
       ELSE /\ items' = ItemsOf(mem[players], STAT_MAPPING[s])
            /\ heap' = << >>
            /\ next_item' = 0
            /\ pc' = "heapify_for"
            /\ UNCHANGED <<mem, sorted_players, i, j, idx, size, root_player, ret, exc>>

\* lines 127-129: append the next item and call percolate_up on it; lines 130
\* and 154-155 when the items are used up: size and the empty output list
heapify_for ==
    /\ UNCHANGED <<timeVars, plotVars, touched>>
    /\ pc = "heapify_for"
    /\ IF next_item < Len(items)
       THEN /\ heap' = Append(heap, At(items, next_item))
            /\ next_item' = next_item + 1
            /\ idx' = Len(heap')  - 1
            /\ pc' = "percolate_up"
            /\ UNCHANGED <<mem, sorted_players, size>>
       ELSE LET new == NewList(mem, << >>)
            IN  /\ size' = Len(heap)
                /\ mem' = new.mem
                /\ sorted_players' = new.ref
                /\ pc' = "heapsort_while"
                /\ UNCHANGED <<heap, next_item, idx>>
    /\ UNCHANGED <<players, given, func, stat, descending, i, j, items,
                   root_player, ret, exc>>

\* Mutation: an `if` in place of the `while`: at most one swap.
percolate_up_once ==
    /\ UNCHANGED <<timeVars, plotVars>>
    /\ pc = "percolate_up"
    /\ IF idx > 0 /\ compare(descending, key(At(heap, idx)), key(At(heap, (idx - 1) \div 2)))
       THEN /\ heap' = Swap(heap, idx, (idx - 1) \div 2)
            /\ idx' = (idx - 1) \div 2
       ELSE UNCHANGED <<heap, idx>>
    /\ touched' = IF idx > 0 THEN {idx, (idx - 1) \div 2} ELSE {}
    /\ pc' = "heapify_for"
    /\ UNCHANGED <<mem, players, given, func, stat, descending, sorted_players, i, j,
                   items, next_item, size, root_player, ret, exc>>

\* lines 97-103: one pass of the while loop of percolate_up
percolate_up ==
    /\ UNCHANGED <<timeVars, plotVars>>
    /\ pc = "percolate_up"
    /\ IF idx > 0 /\ compare(descending, key(At(heap, idx)), key(At(heap, parent_of(idx))))
       THEN /\ heap' = Swap(heap, idx, parent_of(idx))
            /\ idx' = parent_of(idx)
            /\ UNCHANGED pc
       ELSE /\ pc' = "heapify_for"
            /\ UNCHANGED <<heap, idx>>
    /\ touched' = IF idx > 0 THEN {idx, parent_of(idx)} ELSE {}
    /\ UNCHANGED <<mem, players, given, func, stat, descending, sorted_players, i, j,
                   items, next_item, size, root_player, ret, exc>>

\* lines 157-164: take the root, move the last entry to the root, shrink;
\* line 167 when size is 0
heapsort_while ==
    /\ UNCHANGED <<timeVars, plotVars, touched>>
    /\ pc = "heapsort_while"
    /\ IF size > 0
       THEN /\ root_player' = At(heap, 0)[2]
            /\ heap' = MoveLastToRoot(heap, size)
            /\ size' = size - 1
            /\ idx' = 0
            /\ pc' = IF size' > 0 THEN "percolate_down" ELSE "heapsort_append"
            /\ UNCHANGED ret
       ELSE /\ ret' = sorted_players
            /\ pc' = "done"
            /\ UNCHANGED <<heap, size, idx, root_player>>
    /\ UNCHANGED <<mem, players, given, func, stat, descending, sorted_players, i, j,
                   items, next_item, exc>>

\* Mutation: an `if` in place of the `while True`: at most one swap.
percolate_down_once ==
    /\ UNCHANGED <<timeVars, plotVars>>
    /\ pc = "percolate_down"
    /\ heap' = Swap(heap, idx, best_of(heap, idx, size, descending))
    /\ idx' = best_of(heap, idx, size, descending)
    /\ pc' = "heapsort_append"
    /\ touched' = touched_by_best_of(idx, size)
    /\ UNCHANGED <<mem, players, given, func, stat, descending, sorted_players, i, j,
                   items, next_item, size, root_player, ret, exc>>

\* lines 108-121: one pass of the while loop of percolate_down
percolate_down ==
    /\ UNCHANGED <<timeVars, plotVars>>
    /\ pc = "percolate_down"
    /\ LET best == best_of(heap, idx, size, descending)
       IN  IF best = idx
           THEN /\ pc' = "heapsort_append"
                /\ UNCHANGED <<heap, idx>>
           ELSE /\ heap' = Swap(heap, idx, best)
                /\ idx' = best
                /\ UNCHANGED pc
    /\ touched' = touched_by_best_of(idx, size)
    /\ UNCHANGED <<mem, players, given, func, stat, descending, sorted_players, i, j,
                   items, next_item, size, root_player, ret, exc>>

\* line 165: sorted_players.append(root_player)
heapsort_append ==
    /\ UNCHANGED <<timeVars, plotVars, touched>>
    /\ pc = "heapsort_append"
    /\ mem' = [mem EXCEPT ![sorted_players] = Append(@, root_player)]
    /\ pc' = "heapsort_while"
    /\ UNCHANGED <<players, given, func, stat, descending, sorted_players, i, j,
                   items, next_item, heap, idx, size, root_player, ret, exc>>

----------------------------------------------------------------------------
(* The sorting specification: one call of one Sort Strategy on one dataset *)

NoPlayer == "nobody"

\* A call's result: None while it has not returned, Value(v) once it returned v.
None == [none |-> TRUE]

Value(v) == [value |-> v]

Init ==
    /\ pc = "idle"
    /\ given \in Datasets
    /\ mem = <<given>>
    /\ players = 1
    /\ func = "none"
    /\ stat = "none"
    /\ descending = FALSE
    /\ sorted_players = 0
    /\ i = 0
    /\ j = 0
    /\ items = << >>
    /\ next_item = 0
    /\ heap = << >>
    /\ idx = 0
    /\ size = 0
    /\ root_player = NoPlayer
    /\ ret = 0
    /\ exc = NoExc
    /\ datasets = << >>
    /\ algorithms = << >>
    /\ repeats = 0
    /\ results = << >>
    /\ d_pos = 0
    /\ a_pos = 0
    /\ timings = << >>
    /\ rep = 0
    /\ arg = 0
    /\ trials = << >>
    /\ calls = << >>
    /\ time_ret = None
    /\ rows_ret = None
    /\ touched = {}
    /\ sizes = << >>
    /\ algs = << >>
    /\ alg_pos = 0
    /\ plotted = << >>
    /\ saved = None

Next ==
    \/ \E s \in StatInputs, d \in BOOLEAN : numpy_sort(s, d)
    \/ \E s \in StatInputs, d \in BOOLEAN : insertion_sort(s, d)
    \/ \E s \in StatInputs, d \in BOOLEAN : heapsort(s, d)
    \/ insertion_for
    \/ insertion_while
    \/ heapify_for
    \/ percolate_up
    \/ heapsort_while
    \/ percolate_down
    \/ heapsort_append

vars == <<sortVars, timeVars, plotVars, touched>>

Spec == Init /\ [][Next]_vars

----------------------------------------------------------------------------
(* Properties of the Sort Strategies *)

Count(s, x) == Cardinality({k \in DOMAIN s : s[k] = x})

IsPermutation(a, b) ==
    /\ Len(a) = Len(b)
    /\ \A p \in Roster : Count(a, p) = Count(b, p)

value(p, k) == PlayerAttrs[p][STAT_MAPPING[k]]

ValuesOf(list, k) == [n \in 1 .. Len(list) |-> value(list[n], k)]

SortedBy(list, k, d) ==
    \A n \in 1 .. Len(list) - 1 :
        IF d THEN value(list[n], k) >= value(list[n + 1], k)
             ELSE value(list[n], k) <= value(list[n + 1], k)

\* The Records of `list` whose value of k is v, in the order of the list.
WithValue(list, k, v) == SelectSeq(list, LAMBDA p : value(p, k) = v)

Returned == pc = "done"

HasDuplicate(list) == \E a, b \in DOMAIN list : a # b /\ list[a] = list[b]

\* Two different Records of the list have the same value of k.
HasTie(list, k) ==
    \E a, b \in DOMAIN list : list[a] # list[b] /\ value(list[a], k) = value(list[b], k)

\* C1: whichever of numpy_sort, insertion_sort and heapsort was called, and
\* whatever the dataset (the empty one too), the valid stat key and the
\* direction, the returned list is a permutation of the dataset: the same
\* length and every Record as many times as in the dataset.
C1_OutputIsPermutation == Returned => IsPermutation(mem[ret], given)

C1_Witness ==
    /\ Returned
    /\ func = "heapsort"
    /\ Len(given) >= 4
    /\ HasDuplicate(given)
    /\ mem[ret] # given

\* C2: in the returned list every adjacent pair (x, y) has value(x) >= value(y)
\* when descending and value(x) <= value(y) when ascending; the three fixture
\* Records (ppg 25, 20, 30) come out Charlie, Alice, Bob descending and Bob,
\* Alice, Charlie ascending, whatever their order in the dataset.
C2_OutputIsSorted ==
    Returned =>
        /\ SortedBy(mem[ret], stat, descending)
        /\ (stat = "ppg" /\ Len(given) = 3 /\ ~HasDuplicate(given)) =>
               mem[ret] = IF descending THEN <<"Charlie", "Alice", "Bob">>
                                        ELSE <<"Bob", "Alice", "Charlie">>

C2_Witness ==
    /\ Returned
    /\ func = "numpy_sort"
    /\ stat = "ppg"
    /\ ~descending
    /\ given = <<"Alice", "Bob", "Charlie">>
    /\ mem[ret] = <<"Bob", "Alice", "Charlie">>

C4_InputUntouched ==
    /\ players = 1
    /\ mem[players] = given
    /\ Returned => (ret # players /\ ret \notin {1})

C4_Witness ==
    /\ Returned
    /\ func = "insertion_sort"
    /\ mem[ret] # given
    /\ mem[players] = given
    /\ Len(given) >= 3

\* C5: insertion_sort is stable in both directions: for every value v of the
\* selected stat, the Records with that value are in the output in the order
\* they have in the input.
C5_InsertionSortStable ==
    (Returned /\ func = "insertion_sort") =>
        \A p \in Roster :
            WithValue(mem[ret], stat, value(p, stat)) = WithValue(given, stat, value(p, stat))

C5_Witness ==
    /\ Returned
    /\ func = "insertion_sort"
    /\ stat = "bpg"
    /\ descending
    /\ given = <<"Bob", "Charlie", "Bob", "Alice">>
    /\ mem[ret] = <<"Charlie", "Alice", "Bob", "Bob">>

\* C6 as stated: a dataset that is already sorted by k in direction d (ties
\* allowed) is returned with the same Record at every position, by each of
\* the three Sort Strategies.
C6_Idempotent_AsStated ==
    (Returned /\ SortedBy(given, stat, descending)) => mem[ret] = given

\* C6 amended: for a dataset already sorted by k in direction d,
\* insertion_sort returns the same Record at every position; numpy_sort and
\* heapsort return a list with the same value of k at every position, and
\* the same Record at every position when no two different Records of the
\* dataset have the same value of k.
C6_Idempotent_Amended ==
    (Returned /\ SortedBy(given, stat, descending)) =>
        /\ func = "insertion_sort" => mem[ret] = given
        /\ ValuesOf(mem[ret], stat) = ValuesOf(given, stat)
        /\ ~HasTie(given, stat) => mem[ret] = given

C6_Witness ==
    /\ Returned
    /\ func = "heapsort"
    /\ stat = "spg"
    /\ given = <<"Alice", "Bob", "Charlie">>
    /\ mem[ret] = <<"Alice", "Charlie", "Bob">>

\* No entry of heap[0 .. n-1] is above its parent, the entry at (k - 1) // 2.
HeapOrdered(h, n, d) ==
    \A k \in 1 .. n - 1 :
        ~(IF d THEN key(At(h, k)) > key(At(h, (k - 1) \div 2))
               ELSE key(At(h, k)) < key(At(h, (k - 1) \div 2)))

SameEntries(a, b) ==
    /\ Len(a) = Len(b)
    /\ \A e \in {a[k] : k \in DOMAIN a} \cup {b[k] : k \in DOMAIN b} : Count(a, e) = Count(b, e)

\* C7: between the passes of heapify's loop, and so when heapify returns, the
\* heap holds exactly the items inserted so far and no entry is above its
\* parent, for the predicate a > b as for a < b.
C7_HeapifyHeapOrder ==
    pc = "heapify_for" =>
        /\ SameEntries(heap, SubSeq(items, 1, next_item))
        /\ HeapOrdered(heap, Len(heap), descending)

C7_Witness ==
    /\ pc = "heapify_for"
    /\ next_item = Len(items)
    /\ Len(items) = 4
    /\ ~descending
    /\ heap # items

\* a is above b: a > b when descending, a < b when ascending.
Above(d, a, b) == IF d THEN a > b ELSE a < b

\* C12: at the start of every pass of heapsort's extraction loop the live heap
\* [0, size) is heap ordered and len(output) + size is the length n of the
\* input; the root a pass removes is an entry no remaining live entry is
\* above; the loop ends with size = 0 and an output of length n.
C12_ExtractionLoopInvariant ==
    /\ pc = "heapsort_while" =>
           /\ HeapOrdered(heap, size, descending)
           /\ Len(mem[sorted_players]) + size = Len(given)
    /\ pc \in {"percolate_down", "heapsort_append"} =>
           \A k \in 0 .. size - 1 :
               ~Above(descending, key(At(heap, k)), value(root_player, stat))
    /\ (Returned /\ func = "heapsort") =>
           /\ size = 0
           /\ Len(mem[ret]) = Len(given)

C12_Witness ==
    /\ pc = "heapsort_while"
    /\ Len(given) = 5
    /\ size = 3
    /\ Len(mem[sorted_players]) = 2
    /\ touched = {0, 1, 2}
    /\ heap # SubSeq(items, 1, 3)

----------------------------------------------------------------------------
(* Timing harness: time_algorithm and collect_timings *)

MaxDatasets == 2

MaxRepeats == 2

\* What perf_counter() may measure over one call of func: end - start, in
\* seconds. The clock is monotonic, so the difference is never negative.
Durations == {1, 3}

\* The SortFn values handed to the harness: the three Sort Strategies, and two
\* callables that work on the list they are given, one reordering it and one
\* truncating it.
SortFns == {"numpy_sort", "insertion_sort", "heapsort", "reverse_in_place", "pop_in_place"}

\* The `algorithms` dicts handed to collect_timings, as their items() in order.
AlgorithmTables ==
    { << >>,
      << <<"popping", "pop_in_place">> >>,
      << <<"insertion_sort", "insertion_sort">>, <<"numpy_sort", "numpy_sort">> >>,
      << <<"reversing", "reverse_in_place">>, <<"heapsort", "heapsort">> >> }

TimingStats == {"ppg", "championships"}

\* load_players_from_csv: the Players of the file, in its order
LoadedPlayers == <<"Alice", "Bob", "Charlie">>

\* build_datasets hands collect_timings (base, len(subset), subset) triples.
\* The k-th dataset holds k Players; its list is the k-th list of the store.
SubsetOf(k) == [n \in 1 .. k |-> LoadedPlayers[((n - 1) % Len(LoadedPlayers)) + 1]]

DatasetAt(k) == <<IF k % 2 = 1 THEN "playoffs.csv" ELSE "synthetic.csv", Len(SubsetOf(k)), k>>

DatasetLists(n) == [k \in 1 .. n |-> DatasetAt(k)]

Reverse(s) == [k \in 1 .. Len(s) |-> s[Len(s) + 1 - k]]

RECURSIVE Sum(_)
Sum(s) == IF s = << >> THEN 0 ELSE s[1] + Sum(Tail(s))

RECURSIVE SumSq(_)
SumSq(s) == IF s = << >> THEN 0 ELSE s[1] * s[1] + SumSq(Tail(s))

RECURSIVE GCD(_, _)
GCD(a, b) == IF b = 0 THEN a ELSE GCD(b, a % b)

\* A float: the exact quotient n / d, in lowest terms.
Frac(n, d) == [num |-> n \div GCD(n, d), den |-> d \div GCD(n, d)]

Zero == Frac(0, 1)

\* math.sqrt of a quotient q >= 0; a float s > 0 that is a root is held by s * s.
Sqrt(q) == IF q.num = 0 THEN Zero ELSE [sqrt_of |-> q]

\* (end - start) * 1000.0
ToMs(seconds) == seconds * 1000

\* statistics.mean(timings), for a non-empty list
mean(data) == Frac(Sum(data), Len(data))

\* statistics.stdev(timings): the square root of the sample variance,
\* sum((x - mean)^2) / (n - 1), for a list of at least two samples
stdev(data) ==
    Sqrt(Frac(Len(data) * SumSq(data) - Sum(data) * Sum(data), Len(data) * (Len(data) - 1)))

StatisticsError(msg) == [type |-> "StatisticsError", msg |-> msg]

\* Mutation: the standard deviation is asked for whenever there is a sample.
stdev_wanted_for_any(data) == Len(data) > 0

\* line 58: len(timings) > 1
stdev_wanted(data) == Len(data) > 1

\* lines 67-75
ResultRow(dataset_name, sz, alg_name, avg_ms, stdev_ms) ==
    [dataset |-> dataset_name, size |-> sz, algorithm |-> alg_name,
     avg_ms |-> avg_ms, stdev_ms |-> stdev_ms]

\* Mutation: the inner loop is left after its first pass.
NextPairLeavingInnerLoop(d, a, n_algs) == <<d + 1, 0>>

\* lines 64-65: the loop positions after the pair (d, a)
NextPair(d, a, n_algs) == IF a + 1 < n_algs THEN <<d, a + 1>> ELSE <<d + 1, 0>>

\* What a call func(list, stat, descending) does: the exception it raises or
\* NoExc, and the store when it is over. A Sort Strategy raises on an invalid
\* stat and otherwise returns a new list, leaving its argument as it was
\* (C4_InputUntouched); the value returned is dropped by line 53.
StrategyEffect(f, m, ref, s, d) ==
    CASE f \in {"numpy_sort", "insertion_sort", "heapsort"} ->
            IF ~StatIsValid(s) THEN [exc |-> InvalidStat(s), mem |-> m]
                               ELSE [exc |-> NoExc, mem |-> m]
      [] f = "reverse_in_place" -> [exc |-> NoExc, mem |-> [m EXCEPT ![ref] = Reverse(@)]]
      [] f = "pop_in_place" ->
            [exc |-> NoExc, mem |-> [m EXCEPT ![ref] = IF @ = << >> THEN @ ELSE Pop(@)]]

\* The lists a caller of collect_timings holds: those of the datasets. The copy
\* made for a trial is garbage once the trial is over.
Reachable(m) == SubSeq(m, 1, MaxDatasets)

\* lines 62-63: the call of collect_timings
collect_timings(n, table, s, d, r) ==
    /\ UNCHANGED <<plotVars, touched>>
    /\ pc = "idle"
    /\ datasets' = DatasetLists(n)
    /\ algorithms' = table
    /\ stat' = s
    /\ descending' = d
    /\ repeats' = r
    /\ results' = << >>
    /\ d_pos' = 0
    /\ a_pos' = 0
    /\ pc' = "collect_for"
    /\ UNCHANGED <<mem, given, func, exc, sortLocals, timings, rep, arg, trials, calls,
                   time_ret, rows_ret>>

\* lines 64-66 and 50: the next (dataset, algorithm) pair and the call of
\* time_algorithm on it; line 76 when the pairs are used up
collect_for ==
    /\ UNCHANGED <<plotVars, touched>>
    /\ pc = "collect_for"
    /\ IF d_pos < Len(datasets) /\ Len(algorithms) > 0
       THEN /\ func' = At(algorithms, a_pos)[2]
            /\ players' = At(datasets, d_pos)[3]
            /\ timings' = << >>
            /\ rep' = 0
            /\ trials' = << >>
            /\ calls' = Append(calls, <<d_pos, a_pos>>)
            /\ pc' = "time_for"
            /\ UNCHANGED rows_ret
       ELSE /\ rows_ret' = Value(results)
            /\ pc' = "returned"
            /\ UNCHANGED <<func, players, timings, rep, trials, calls>>
    /\ UNCHANGED <<mem, given, stat, descending, exc, sorted_players, i, j, items,
                   next_item, heap, idx, size, root_player, ret, datasets, algorithms,
                   repeats, results, d_pos, a_pos, arg, time_ret>>

\* lines 51-53: a pass of the for loop up to the call func(players.copy(), ...)
time_for ==
    /\ UNCHANGED <<plotVars, touched>>
    /\ pc = "time_for"
    /\ IF rep < repeats
       THEN LET copy == ListCopy(Reachable(mem), players)
            IN  /\ mem' = copy.mem
                /\ arg' = copy.ref
                /\ trials' = Append(trials, copy.mem[copy.ref])
                /\ pc' = "in_func"
       ELSE /\ pc' = "time_stats"
            /\ UNCHANGED <<mem, arg, trials>>
    /\ UNCHANGED <<given, func, stat, descending, exc, sortLocals, datasets, algorithms,
                   repeats, results, d_pos, a_pos, timings, rep, calls, time_ret, rows_ret>>

\* lines 53-55: func runs; it raises, and nothing catches the exception, or it
\* returns and the elapsed time is appended
func_runs ==
    /\ UNCHANGED <<plotVars, touched>>
    /\ pc = "in_func"
    /\ LET effect == StrategyEffect(func, mem, arg, stat, descending)
       IN  IF effect.exc # NoExc
           THEN /\ exc' = effect.exc
                /\ pc' = "raised"
                /\ UNCHANGED <<mem, timings, rep>>
           ELSE /\ \E elapsed \in Durations : timings' = Append(timings, ToMs(elapsed))
                /\ mem' = effect.mem
                /\ rep' = rep + 1
                /\ pc' = "time_for"
                /\ UNCHANGED exc
    /\ UNCHANGED <<given, func, stat, descending, sortLocals, datasets, algorithms,
                   repeats, results, d_pos, a_pos, arg, trials, calls, time_ret, rows_ret>>

\* lines 57-59 and 66-75: mean and stdev, the return of (avg, stdev), the row
time_stats ==
    /\ UNCHANGED <<plotVars, touched>>
    /\ pc = "time_stats"
    /\ IF Len(timings) = 0
       THEN /\ exc' = StatisticsError("mean requires at least one data point")
            /\ pc' = "raised"
            /\ UNCHANGED <<time_ret, results, d_pos, a_pos>>
       ELSE IF stdev_wanted(timings) /\ Len(timings) < 2
       THEN /\ exc' = StatisticsError("variance requires at least two data points")
            /\ pc' = "raised"
            /\ UNCHANGED <<time_ret, results, d_pos, a_pos>>
       ELSE LET avg == mean(timings)
                sd == IF stdev_wanted(timings) THEN stdev(timings) ELSE Zero
                dataset == At(datasets, d_pos)
                next == NextPair(d_pos, a_pos, Len(algorithms))
            IN  /\ time_ret' = Value(<<avg, sd>>)
                /\ results' = Append(results, ResultRow(dataset[1], dataset[2],
                                                        At(algorithms, a_pos)[1], avg, sd))
                /\ d_pos' = next[1]
                /\ a_pos' = next[2]
                /\ pc' = "collect_for"
                /\ UNCHANGED exc
    /\ UNCHANGED <<mem, given, func, stat, descending, sortLocals, datasets, algorithms,
                   repeats, timings, rep, arg, trials, calls, rows_ret>>

InitTiming ==
    /\ pc = "idle"
    /\ mem = [k \in 1 .. MaxDatasets |-> SubsetOf(k)]
    /\ given = mem
    /\ players = 0
    /\ func = "none"
    /\ stat = "none"
    /\ descending = FALSE
    /\ sorted_players = 0
    /\ i = 0
    /\ j = 0
    /\ items = << >>
    /\ next_item = 0
    /\ heap = << >>
    /\ idx = 0
    /\ size = 0
    /\ root_player = NoPlayer
    /\ ret = 0
    /\ exc = NoExc
    /\ datasets = << >>
    /\ algorithms = << >>
    /\ repeats = 0
    /\ results = << >>
    /\ d_pos = 0
    /\ a_pos = 0
    /\ timings = << >>
    /\ rep = 0
    /\ arg = 0
    /\ trials = << >>
    /\ calls = << >>
    /\ time_ret = None
    /\ rows_ret = None
    /\ touched = {}
    /\ sizes = << >>
    /\ algs = << >>
    /\ alg_pos = 0
    /\ plotted = << >>
    /\ saved = None

NextTiming ==
    \/ \E n \in 0 .. MaxDatasets, table \in AlgorithmTables, s \in TimingStats,
          d \in BOOLEAN, r \in 0 .. MaxRepeats : collect_timings(n, table, s, d, r)
    \/ collect_for
    \/ time_for
    \/ func_runs
    \/ time_stats

SpecTiming == InitTiming /\ [][NextTiming]_vars

----------------------------------------------------------------------------
(* Properties of the timing harness *)

DatasetRefs == 1 .. MaxDatasets

\* C8: a call of time_algorithm that gets through its loop has invoked func
\* exactly `repeats` times (never more, at any point); every invocation got a
\* list that is not the caller's and held the dataset's Records in their
\* original order; and the caller's lists never change, whatever func does to
\* the list it is given (reverse it, pop from it).
C8_FreshCopyPerTrial ==
    /\ \A k \in DatasetRefs : mem[k] = given[k]
    /\ pc \in {"time_for", "in_func", "time_stats"} =>
           /\ Len(trials) <= repeats
           /\ \A n \in DOMAIN trials : trials[n] = given[players]
    /\ pc = "in_func" => (arg \notin DatasetRefs /\ Len(trials) = rep + 1)
    /\ pc = "time_stats" => Len(trials) = repeats
    /\ (pc = "collect_for" /\ calls # << >>) => Len(trials) = repeats

C8_Witness ==
    /\ pc = "time_for"
    /\ func = "reverse_in_place"
    /\ repeats = 2
    /\ rep = 2
    /\ players = 2
    /\ mem[arg] = <<"Bob", "Alice">>
    /\ trials = <<given[2], given[2]>>

IsFloat(x) ==
    \/ x \in [num : Nat, den : Nat \ {0}]
    \/ x \in [sqrt_of : [num : Nat \ {0}, den : Nat \ {0}]]

\* a is sum(data) / len(data)
IsMeanOf(a, data) == a.num * Len(data) = Sum(data) * a.den

\* s * s is the sample variance (len * sum(x^2) - sum(x)^2) / (len * (len - 1))
IsStdevOf(s, data) ==
    LET n == Len(data)
        spread == n * SumSq(data) - Sum(data) * Sum(data)
    IN  IF spread = 0 THEN s = [num |-> 0, den |-> 1]
        ELSE /\ DOMAIN s = {"sqrt_of"}
             /\ s.sqrt_of.num * n * (n - 1) = spread * s.sqrt_of.den

\* C9: what time_algorithm returns is a pair of two floats, the mean of the
\* samples and their deviation, and no list; with repeats = 1 the deviation
\* is exactly 0; the sample standard deviation is computed only of more than
\* one sample, so statistics never fails on a list that has a sample.
C9_MeanAndStdev ==
    /\ (pc = "collect_for" /\ calls # << >>) =>
           /\ time_ret # None
           /\ Len(time_ret.value) = 2
           /\ IsFloat(time_ret.value[1]) /\ IsFloat(time_ret.value[2])
           /\ Len(timings) = repeats
           /\ IsMeanOf(time_ret.value[1], timings)
           /\ repeats = 1 => time_ret.value[2] = [num |-> 0, den |-> 1]
           /\ repeats > 1 => IsStdevOf(time_ret.value[2], timings)
    /\ (pc = "raised" /\ exc.type = "StatisticsError") => repeats = 0

C9_Witness ==
    /\ pc = "collect_for"
    /\ repeats = 1
    /\ timings = <<3000>>
    /\ time_ret = [value |-> <<[num |-> 3000, den |-> 1], [num |-> 0, den |-> 1]>>]

PairOf(k) == <<(k - 1) \div Len(algorithms), (k - 1) % Len(algorithms)>>

\* C10: when collect_timings returns, time_algorithm was called once for each
\* (dataset, algorithm) pair and for nothing else, and the rows returned are
\* one per pair, |datasets| x |algorithms| of them, the row of a pair holding
\* the dataset's label and size and the algorithm's label; when a strategy
\* raises, its exception comes out as raised and no rows are returned.
C10_OneRowPerPair ==
    /\ pc = "returned" =>
           /\ rows_ret # None
           /\ Len(rows_ret.value) = Len(datasets) * Len(algorithms)
           /\ Len(calls) = Len(datasets) * Len(algorithms)
           /\ \A k \in DOMAIN rows_ret.value :
                  /\ calls[k] = PairOf(k)
                  /\ rows_ret.value[k].dataset = datasets[PairOf(k)[1] + 1][1]
                  /\ rows_ret.value[k].size = datasets[PairOf(k)[1] + 1][2]
                  /\ rows_ret.value[k].algorithm = algorithms[PairOf(k)[2] + 1][1]
                  /\ DOMAIN rows_ret.value[k] =
                         {"dataset", "size", "algorithm", "avg_ms", "stdev_ms"}
    /\ pc = "raised" =>
           /\ rows_ret = None
           /\ exc.type = "ValueError" =>
                  exc = [type |-> "ValueError", stat |-> stat,
                         choose_from |-> <<"ppg", "apg", "bpg", "spg">>]
    /\ rows_ret # None => pc = "returned"
    /\ (/\ pc \notin {"idle", "collect_for", "time_for", "in_func", "time_stats"}
        /\ stat \notin {"ppg", "apg", "bpg", "spg"}
        /\ Len(datasets) > 0
        /\ repeats > 0
        /\ \E a \in DOMAIN algorithms :
               algorithms[a][2] \in {"numpy_sort", "insertion_sort", "heapsort"}) =>
           (pc = "raised" /\ exc.type = "ValueError")

C10_Witness ==
    /\ pc = "returned"
    /\ Len(datasets) = 2
    /\ Len(algorithms) = 2
    /\ Len(rows_ret.value) = 4
    /\ rows_ret.value[3].algorithm = "insertion_sort"
    /\ rows_ret.value[3].dataset = "synthetic.csv"
    /\ rows_ret.value[3].size = 2

\* A strategy raised after rows had been collected: none of them is returned.
C10_RaisedAfterRows ==
    /\ pc = "raised"
    /\ Len(results) > 0
    /\ rows_ret = None

----------------------------------------------------------------------------
(* plot_results *)

MaxRows == 3

\* The algorithm labels of the rows, in the order sorted() puts strings in.
AlgLabels == <<"heapsort", "insertion_sort">>

\* The rows plot_results may be handed: rows as collect_timings makes them.
PlotRows ==
    {ResultRow(name, sz, AlgLabels[a], avg, Zero) :
        name \in {"playoffs.csv", "synthetic.csv"}, sz \in {1, 2},
        a \in DOMAIN AlgLabels, avg \in {Frac(1000, 1), Frac(7000, 3)}}

RowLists == SeqsUpTo(PlotRows, MaxRows)

\* sorted(S) for a set of integers
RECURSIVE SortedInts(_)
SortedInts(S) ==
    IF S = {} THEN << >>
    ELSE LET least == CHOOSE x \in S : \A y \in S : x <= y
         IN  <<least>> \o SortedInts(S \ {least})

\* sorted(S) for a set of algorithm labels
SortedLabels(S) == SelectSeq(AlgLabels, LAMBDA l : l \in S)

\* Mutation: the rows of every algorithm with that size.
MatchesOfAnyAlgorithm(rows, alg, sz) == SelectSeq(rows, LAMBDA r : r.size = sz)

\* line 102: [r for r in results if r["algorithm"] == alg and r["size"] == size]
Matches(rows, alg, sz) == SelectSeq(rows, LAMBDA r : r.algorithm = alg /\ r.size = sz)

FracPlus(a, b) == Frac(a.num * b.den + b.num * a.den, a.den * b.den)

RECURSIVE SumOfAvgs(_)
SumOfAvgs(rows) ==
    IF rows = << >> THEN Zero ELSE FracPlus(rows[1].avg_ms, SumOfAvgs(Tail(rows)))

\* line 105: statistics.mean(r["avg_ms"] for r in matches), matches not empty
MeanOfAvgs(rows) == Frac(SumOfAvgs(rows).num, SumOfAvgs(rows).den * Len(rows))

\* lines 99-107: xs and ys of one algorithm, a point for each size it has rows of
SeriesOf(rows, szs, alg) ==
    LET xs == SelectSeq(szs, LAMBDA sz : Matches(rows, alg, sz) # << >>)
    IN  [label |-> alg,
         xs |-> xs,
         ys |-> [k \in 1 .. Len(xs) |-> MeanOfAvgs(Matches(rows, alg, xs[k]))]]

OutputWriteFailure == [type |-> "OSError"]

\* lines 94-96: the call of plot_results, sizes and algs
plot_results(rows) ==
    /\ pc = "idle"
    /\ results' = rows
    /\ sizes' = SortedInts({rows[k].size : k \in DOMAIN rows})
    /\ algs' = SortedLabels({rows[k].algorithm : k \in DOMAIN rows})
    /\ alg_pos' = 0
    /\ plotted' = << >>
    /\ pc' = "plot_for"
    /\ UNCHANGED <<mem, given, func, stat, descending, exc, sortLocals, datasets,
                   algorithms, repeats, d_pos, a_pos, timings, rep, arg, trials, calls,
                   time_ret, rows_ret, touched, saved>>

\* lines 98-109: one pass of the loop over algs, with its call of plt.plot
plot_for ==
    /\ pc = "plot_for"
    /\ IF alg_pos < Len(algs)
       THEN LET series == SeriesOf(results, sizes, At(algs, alg_pos))
            IN  /\ plotted' = IF series.xs # << >> /\ series.ys # << >>
                              THEN Append(plotted, series) ELSE plotted
                /\ alg_pos' = alg_pos + 1
                /\ UNCHANGED pc
       ELSE /\ pc' = "plot_save"
            /\ UNCHANGED <<plotted, alg_pos>>
    /\ UNCHANGED <<mem, given, func, stat, descending, exc, sortLocals, timeVars,
                   touched, sizes, algs, saved>>

\* lines 111-119: the chart is written to output_path, or the write fails
plot_save ==
    /\ pc = "plot_save"
    /\ \E written \in BOOLEAN :
         IF written
         THEN /\ saved' = Value("timing_results.png")
              /\ pc' = "plot_saved"
              /\ UNCHANGED exc
         ELSE /\ exc' = OutputWriteFailure
              /\ pc' = "raised"
              /\ UNCHANGED saved
    /\ UNCHANGED <<mem, given, func, stat, descending, sortLocals, timeVars, touched,
                   sizes, algs, alg_pos, plotted>>

NextPlot ==
    \/ pc = "idle" /\ \E rows \in RowLists : plot_results(rows)
    \/ plot_for
    \/ plot_save

\* plot_results starts from the state nothing has run in.
SpecPlot == InitTiming /\ [][NextPlot]_vars

----------------------------------------------------------------------------
(* Properties of plot_results *)

RowsOf(alg) == SelectSeq(results, LAMBDA r : r.algorithm = alg)

\* The (size, avg_ms) pairs of a list of rows, and the points of a series.
PairsOfRows(rows) == {<<rows[k].size, rows[k].avg_ms>> : k \in DOMAIN rows}

PointsOf(series) == {<<series.xs[k], series.ys[k]>> : k \in DOMAIN series.xs}

Ascending(xs) == \A k \in 1 .. Len(xs) - 1 : xs[k] < xs[k + 1]

RECURSIVE DenProduct(_)
DenProduct(rows) == IF rows = << >> THEN 1 ELSE rows[1].avg_ms.den * DenProduct(Tail(rows))

RECURSIVE ScaledSum(_, _)
ScaledSum(rows, scale) ==
    IF rows = << >> THEN 0
    ELSE rows[1].avg_ms.num * (scale \div rows[1].avg_ms.den) + ScaledSum(Tail(rows), scale)

\* y is the arithmetic mean of the avg_ms of the rows
IsMeanOfRows(y, rows) ==
    y.num * Len(rows) * DenProduct(rows) = y.den * ScaledSum(rows, DenProduct(rows))

AllPlotted == pc \in {"plot_save", "plot_saved"}

LabelsOfRows == {results[k].algorithm : k \in DOMAIN results}

\* One plt.plot call for each algorithm label of the rows, in ascending order
\* of the labels.
OneLinePerAlgorithm ==
    /\ {plotted[k].label : k \in DOMAIN plotted} = LabelsOfRows
    /\ Len(plotted) = Cardinality(LabelsOfRows)
    /\ \A k \in DOMAIN plotted : plotted[k].label = SelectSeq(AlgLabels, LAMBDA l : l \in LabelsOfRows)[k]

\* C11 as stated: once every algorithm is plotted there is one line for each
\* algorithm label, and the line of a label has the (size, mean) pairs of
\* that algorithm's rows, a point for each row, in ascending order of size.
C11_SeriesAreTheRows_AsStated ==
    AllPlotted =>
        /\ OneLinePerAlgorithm
        /\ \A k \in DOMAIN plotted :
               /\ Len(plotted[k].xs) = Len(RowsOf(plotted[k].label))
               /\ Len(plotted[k].ys) = Len(plotted[k].xs)
               /\ PointsOf(plotted[k]) = PairsOfRows(RowsOf(plotted[k].label))
               /\ \A n \in 1 .. Len(plotted[k].xs) - 1 : plotted[k].xs[n] <= plotted[k].xs[n + 1]

\* C11 amended: there is one line for each algorithm label; the line of a
\* label has one point for each distinct size among that algorithm's rows, in
\* strictly ascending order of size, and the point's y is the mean of avg_ms
\* over the algorithm's rows of that size; when the algorithm's rows all
\* differ in size the points are the (size, mean) pairs of its rows.
C11_SeriesPerDistinctSize ==
    AllPlotted =>
        /\ OneLinePerAlgorithm
        /\ \A k \in DOMAIN plotted :
             LET line == plotted[k]
                 mine == RowsOf(line.label)
             IN  /\ Len(line.ys) = Len(line.xs)
                 /\ Ascending(line.xs)
                 /\ {line.xs[n] : n \in DOMAIN line.xs} = {mine[n].size : n \in DOMAIN mine}
                 /\ \A n \in DOMAIN line.xs :
                        IsMeanOfRows(line.ys[n],
                                     SelectSeq(mine, LAMBDA r : r.size = line.xs[n]))
                 /\ Len(line.xs) = Len(mine) => PointsOf(line) = PairsOfRows(mine)

C11_Witness ==
    /\ pc = "plot_saved"
    /\ Len(results) = 3
    /\ Len(plotted) = 2
    /\ plotted[1].label = "heapsort"
    /\ plotted[1].xs = <<1, 2>>
    /\ plotted[1].ys = <<[num |-> 7000, den |-> 3], [num |-> 1000, den |-> 1]>>
    /\ plotted[2].label = "insertion_sort"
    /\ results[1].algorithm = "heapsort" /\ results[1].size = 2

----------------------------------------------------------------------------
(* percolate_up and percolate_down called on any heap *)

\* The heaps of the calls: the entries heapsort makes of a dataset, in any
\* order, heap ordered or not; the key has ties (Alice and Charlie).
Heaps == {ItemsOf(list, "blocks_per_game") : list \in Datasets \ {<< >>}}

\* A call percolate_up(heap, idx, compare) or percolate_down(heap, idx, size,
\* compare) with 0 <= idx < size <= len(heap) is about to run its first pass.
InitHeap ==
    /\ pc \in {"percolate_up", "percolate_down"}
    /\ heap \in Heaps
    /\ items = heap
    /\ size \in 1 .. Len(heap)
    /\ idx \in 0 .. size - 1
    /\ descending \in BOOLEAN
    /\ stat = "bpg"
    /\ func = "none"
    /\ given = << >>
    /\ mem = <<given>>
    /\ players = 1
    /\ sorted_players = 0
    /\ i = 0
    /\ j = 0
    /\ next_item = 0
    /\ root_player = NoPlayer
    /\ ret = 0
    /\ exc = NoExc
    /\ datasets = << >>
    /\ algorithms = << >>
    /\ repeats = 0
    /\ results = << >>
    /\ d_pos = 0
    /\ a_pos = 0
    /\ timings = << >>
    /\ rep = 0
    /\ arg = 0
    /\ trials = << >>
    /\ calls = << >>
    /\ time_ret = None
    /\ rows_ret = None
    /\ touched = {}
    /\ sizes = << >>
    /\ algs = << >>
    /\ alg_pos = 0
    /\ plotted = << >>
    /\ saved = None

NextHeap ==
    \/ percolate_up
    \/ percolate_down

\* The interpreter runs a pass of a loop whenever there is one to run.
SpecHeap == InitHeap /\ [][NextHeap]_vars /\ WF_vars(NextHeap)

----------------------------------------------------------------------------
(* Properties of percolate_up and percolate_down *)

Percolating == pc \in {"percolate_up", "percolate_down"}

KeyAt(k) == key(At(heap, k))

\* While a call runs idx is within [0, size) and size within the heap, and
\* the indices the pass before read or swapped are within [0, size).
IndicesInRange ==
    /\ Percolating => 0 <= idx /\ idx < size /\ size <= Len(heap)
    /\ touched \subseteq 0 .. size - 1

\* A pass of percolate_up stops at index 0 or where the element is not above
\* its parent, and leaves the heap alone; otherwise it swaps the element with
\* its parent and goes on from the parent.
UpStep ==
    pc = "percolate_up" =>
        LET stop == idx = 0 \/ ~Above(descending, KeyAt(idx), KeyAt((idx - 1) \div 2))
        IN  IF stop
            THEN pc' # "percolate_up" /\ heap' = heap /\ idx' = idx
            ELSE /\ pc' = "percolate_up"
                 /\ idx' = (idx - 1) \div 2
                 /\ idx' < idx
                 /\ heap' = [heap EXCEPT ![idx + 1] = heap[idx' + 1], ![idx' + 1] = heap[idx + 1]]

\* A pass of percolate_down stops at a leaf or where no child within
\* [0, size) is above the element, and leaves the heap alone; otherwise it
\* swaps the element with a child that is above it and that the other child
\* is not above, the left one when the two children have equal keys, and
\* goes on from that child.
DownStep ==
    pc = "percolate_down" =>
        LET left == 2 * idx + 1
            right == 2 * idx + 2
            stop == \A c \in {left, right} :
                        c < size => ~Above(descending, KeyAt(c), KeyAt(idx))
        IN  IF stop
            THEN pc' # "percolate_down" /\ heap' = heap /\ idx' = idx
            ELSE /\ pc' = "percolate_down"
                 /\ idx' \in {left, right}
                 /\ idx' < size
                 /\ idx' > idx
                 /\ Above(descending, KeyAt(idx'), KeyAt(idx))
                 /\ \A c \in {left, right} :
                        c < size => ~Above(descending, KeyAt(c), KeyAt(idx'))
                 /\ (right < size /\ KeyAt(left) = KeyAt(right)) => idx' = left
                 /\ heap' = [heap EXCEPT ![idx + 1] = heap[idx' + 1], ![idx' + 1] = heap[idx + 1]]

\* C13: for every heap and every 0 <= idx < size <= len(heap), percolate_up
\* and percolate_down terminate; percolate_up stops at index 0 or at the first
\* position where the element is not above its parent, percolate_down at a
\* leaf or when neither child within [0, size) is above the element, taking
\* the left child over the right on ties; neither reads or swaps an index
\* outside [0, size).
C13_PercolateTerminatesInRange ==
    /\ []IndicesInRange
    /\ [][UpStep /\ DownStep]_vars
    /\ <>(~Percolating)

\* percolate_down has carried the root of a five entry heap down two levels,
\* to the leaf at index 4.
C13_Witness ==
    /\ pc = "heapsort_append"
    /\ size = 5
    /\ idx = 4
    /\ touched = {}
    /\ KeyAt(0) # KeyAt(4)
    /\ heap = <<items[2], items[5], items[3], items[4], items[1]>>

====
